---- MODULE Spec2Model ----
(***************************************************************************)
(* Model of dagster_aws/ecs/tasks.py: the ECS task definition synthesizer  *)
(* (default_ecs_task_definition), the task metadata resolver               *)
(* (current_ecs_task_metadata, current_ecs_container_name), the            *)
(* eventual-consistency poller (current_ecs_task) and the task config      *)
(* projector (current_ecs_task_config).                                    *)
(*                                                                         *)
(* Python values are modelled as follows.  A dict is a function from key   *)
(* strings to values.  A list is a sequence.  An argument that may be None *)
(* or a list is an option: <<>> is None and <<l>> is the list l.  A call's *)
(* outcome is Return(v) or Raise(e) with e the name of the exception class.*)
(***************************************************************************)
EXTENDS Integers, Sequences, FiniteSets, TLC

VARIABLES
    \* current_ecs_task
    pc,          \* position of the poller in the retry loop
    request,     \* arguments current_ecs_task was called with
    log,         \* responses of ecs.describe_tasks, one per call made
    calls,       \* number of calls to describe_task_or_raise
    sleeps,      \* number of backoff delays slept
    result,      \* outcome of current_ecs_task once pc = "done"
    \* the task metadata endpoint
    environ,     \* value of ECS_CONTAINER_METADATA_URI_V4, or None
    endpoint,    \* what the metadata endpoint serves
    metaOut,     \* outcome of the last current_ecs_task_metadata call
    nameOut,     \* outcome of the last current_ecs_container_name call
    \* default_ecs_task_definition
    current_task_definition,  \* the caller's document, reused across calls
    synthArgs,   \* arguments the caller passes on every call
    synthPre,    \* the caller's document as it was before the last call
    synthOut,    \* outcome of the last call
    synthPrev,   \* outcome of the call before the last one
    synthCalls,  \* number of calls made
    \* current_ecs_task_config
    task,        \* the observed task
    interfaces,  \* ec2.NetworkInterface(id) for every interface id
    projectArgs, \* the remaining arguments of current_ecs_task_config
    projectOut   \* outcome of the call

vars == <<pc, request, log, calls, sleeps, result,
          environ, endpoint, metaOut, nameOut,
          current_task_definition, synthArgs, synthPre, synthOut, synthPrev,
          synthCalls, task, interfaces, projectArgs, projectOut>>

pollerVars == <<pc, request, log, calls, sleeps, result>>
metaVars == <<environ, endpoint, metaOut, nameOut>>
synthVars == <<current_task_definition, synthArgs, synthPre, synthOut,
               synthPrev, synthCalls>>
projectVars == <<task, interfaces, projectArgs, projectOut>>

----------------------------------------------------------------------------
(* Python values *)

None == "None"
NoneList == <<>>
Some(l) == <<l>>
\* truth value of an argument that is None or a list
Truthy(opt) == opt # NoneList /\ opt[1] # <<>>

EmptyDict == [k \in {} |-> None]
Keys(d) == DOMAIN d
\* rightmost value wins, as in {**a, **b}
Update(a, b) == b @@ a

Return(v) == [kind |-> "return", value |-> v]
Raise(e) == [kind |-> "raise", exc |-> e]
NotCalled == [kind |-> "none"]
Returned(o) == o.kind = "return"
Raised(o, e) == o.kind = "raise" /\ o.exc = e

----------------------------------------------------------------------------
(* current_ecs_task *)

BACKOFF_RETRIES == 9

EcsNoTasksFound == "EcsNoTasksFound"
EcsEventualConsistencyTimeout == "EcsEventualConsistencyTimeout"

\* what one ecs.describe_tasks call can do: raise, or answer with a task list
NoExc == "ok"
OtherErrors == {"ClientError", "EndpointConnectionError"}
TaskArns == {"arn:task/1", "arn:task/2"}
Clusters == {"cluster-a", "cluster-b"}
ObservedTasks == {"task-x", "task-y"}
TaskLists == {<<>>} \cup {<<t>> : t \in ObservedTasks}
                \cup {<<t, u>> : t, u \in ObservedTasks}
Responses == {[exc |-> NoExc, tasks |-> ts] : ts \in TaskLists}
               \cup {[exc |-> e, tasks |-> <<>>] : e \in OtherErrors}

\* mutant: indexes the last task of the answer instead of the first
describe_task_or_raise_last(response) ==
    IF response.exc # NoExc THEN Raise(response.exc)
    ELSE IF Len(response.tasks) = 0 THEN Raise(EcsNoTasksFound)
    ELSE Return(response.tasks[Len(response.tasks)])

\* mutant: a bare except turns every failure into EcsNoTasksFound
describe_task_or_raise_bare(response) ==
    IF response.exc # NoExc THEN Raise(EcsNoTasksFound)
    ELSE IF Len(response.tasks) = 0 THEN Raise(EcsNoTasksFound)
    ELSE Return(response.tasks[1])

describe_task_or_raise(response) ==
    IF response.exc # NoExc THEN Raise(response.exc)
    ELSE IF Len(response.tasks) = 0 THEN Raise(EcsNoTasksFound)
    ELSE Return(response.tasks[1])

\* dagster.utils.backoff.backoff after one more call of fn: the attempt made
\* is number `attempt`; the outcome is either a new delay or the end of the
\* loop with fn's value or fn's exception
backoff(outcome, attempt, retry_on, max_retries) ==
    IF outcome.kind = "raise" /\ outcome.exc \in retry_on
                              /\ attempt < max_retries
    THEN [pc |-> "transient-failure", outcome |-> NotCalled]
    ELSE [pc |-> "done", outcome |-> outcome]

\* mutant: the except clause is missing, EcsNoTasksFound escapes
current_ecs_task_noexcept(outcome) == outcome

\* the try/except around backoff in current_ecs_task
current_ecs_task(outcome) ==
    IF Raised(outcome, EcsNoTasksFound)
    THEN Raise(EcsEventualConsistencyTimeout)
    ELSE outcome

PollerInit ==
    /\ pc = "attempting"
    /\ request \in [task_arn : TaskArns, cluster : Clusters]
    /\ log = <<>>
    /\ calls = 0
    /\ sleeps = 0
    /\ result = NotCalled

\* one call of describe_task_or_raise made by backoff
Attempt(response) ==
    /\ pc = "attempting"
    /\ LET outcome == describe_task_or_raise(response)
           next == backoff(outcome, calls + 1, {EcsNoTasksFound},
                           BACKOFF_RETRIES)
       IN /\ pc' = next.pc
          /\ result' = IF next.pc = "done"
                       THEN current_ecs_task(next.outcome)
                       ELSE result
    /\ log' = Append(log, response)
    /\ calls' = calls + 1
    /\ UNCHANGED <<request, sleeps, metaVars, synthVars, projectVars>>

\* the delay between two attempts
Sleep ==
    /\ pc = "transient-failure"
    /\ pc' = "attempting"
    /\ sleeps' = sleeps + 1
    /\ UNCHANGED <<request, log, calls, result>>
    /\ UNCHANGED <<metaVars, synthVars, projectVars>>

----------------------------------------------------------------------------
(* the task metadata endpoint *)

MetadataUri == "http://169.254.170.2/v4/7d1c"
ContainerNames == {"run", "ghost"}

\* a url is the list of the parts it is concatenated from
TaskPath == "/task"

\* os.environ.get("ECS_CONTAINER_METADATA_URI_V4")
container_metadata_uri == environ

\* requests.get(url).json() against the endpoint
requests_get_json(url) ==
    IF url[1] = None THEN Raise("MissingSchema")
    ELSE IF ~endpoint.reachable THEN Raise("ConnectionError")
    ELSE IF Len(url) = 1 THEN Return(endpoint.container)
    ELSE Return(endpoint.task)

\* response.get(key)
Get(dict, key) == IF key \in Keys(dict) THEN dict[key] ELSE None

CurrentEcsTaskMetadata(cluster, task_arn) ==
    [cluster |-> cluster, task_arn |-> task_arn]

current_ecs_task_metadata ==
    IF container_metadata_uri = None
    THEN Raise("TypeError")      \* None + "/task"
    ELSE LET response == requests_get_json(<<container_metadata_uri, TaskPath>>)
         IN IF response.kind = "raise" THEN response
            ELSE Return(CurrentEcsTaskMetadata(Get(response.value, "Cluster"),
                                               Get(response.value, "TaskARN")))

current_ecs_container_name ==
    LET response == requests_get_json(<<container_metadata_uri>>)
    IN IF response.kind = "raise" THEN response
       ELSE IF "Name" \notin Keys(response.value) THEN Raise("KeyError")
       ELSE Return(response.value["Name"])

ContainerJsons ==
    {EmptyDict} \cup {[Name |-> n] : n \in ContainerNames}
                \cup {[Name |-> n, Image |-> "img1"] : n \in ContainerNames}
TaskJsons ==
    {EmptyDict} \cup {[Cluster |-> c] : c \in Clusters}
                \cup {[TaskARN |-> a] : a \in TaskArns}
                \cup {[Cluster |-> c, TaskARN |-> a] :
                          c \in Clusters, a \in TaskArns}
Endpoints ==
    [reachable : BOOLEAN, container : ContainerJsons, task : TaskJsons]

MetaInit ==
    /\ environ \in {None, MetadataUri}
    /\ endpoint \in Endpoints
    /\ metaOut = NotCalled
    /\ nameOut = NotCalled

CallTaskMetadata ==
    /\ metaOut' = current_ecs_task_metadata
    /\ UNCHANGED <<environ, endpoint, nameOut>>
    /\ UNCHANGED <<pollerVars, synthVars, projectVars>>

CallContainerName ==
    /\ nameOut' = current_ecs_container_name
    /\ UNCHANGED <<environ, endpoint, metaOut>>
    /\ UNCHANGED <<pollerVars, synthVars, projectVars>>

----------------------------------------------------------------------------
(* default_ecs_task_definition *)

MaxContainers == 2
MaxCalls == 2

\* members of the RegisterTaskDefinitionRequest shape
RegisterTaskDefinitionRequest ==
    {"family", "taskRoleArn", "executionRoleArn", "networkMode",
     "containerDefinitions", "volumes", "placementConstraints",
     "requiresCompatibilities", "cpu", "memory", "tags"}

\* dagster.utils.merge_dicts: later dicts win
merge_dicts(a, b, c, d) == Update(Update(Update(a, b), c), d)

\* mutant: falls back to the first container when no name matches
FirstMatch_fallback(container_definitions, name) ==
    LET matching == SelectSeq(container_definitions,
                              LAMBDA container : container["name"] = name)
    IN IF matching # <<>> THEN Return(matching[1])
       ELSE IF container_definitions # <<>>
            THEN Return(container_definitions[1])
            ELSE Raise("StopIteration")

\* next(iter([container for container in ... if container["name"] == name]))
FirstMatch(container_definitions, name) ==
    LET matching == SelectSeq(container_definitions,
                              LAMBDA container : container["name"] = name)
    IN IF matching = <<>> THEN Raise("StopIteration")
       ELSE Return(matching[1])

\* mutant: environment and secrets are set whenever they are not None
new_container_definition_notnone(container_definition, a) ==
    merge_dicts(
        Update(container_definition,
               [name |-> a.container_name,
                image |-> a.image,
                entryPoint |-> <<>>,
                command |-> IF Truthy(a.command) THEN a.command[1] ELSE <<>>]),
        IF a.environment # NoneList
            THEN [environment |-> a.environment[1]] ELSE EmptyDict,
        IF a.secrets # NoneList THEN [secrets |-> a.secrets[1]] ELSE EmptyDict,
        IF a.include_sidecars THEN EmptyDict ELSE [dependsOn |-> <<>>])

\* mutant: dependsOn is inherited in both modes
new_container_definition_depends(container_definition, a) ==
    merge_dicts(
        Update(container_definition,
               [name |-> a.container_name,
                image |-> a.image,
                entryPoint |-> <<>>,
                command |-> IF Truthy(a.command) THEN a.command[1] ELSE <<>>]),
        IF Truthy(a.environment)
            THEN [environment |-> a.environment[1]] ELSE EmptyDict,
        IF Truthy(a.secrets) THEN [secrets |-> a.secrets[1]] ELSE EmptyDict,
        EmptyDict)

new_container_definition(container_definition, a) ==
    merge_dicts(
        Update(container_definition,
               [name |-> a.container_name,
                image |-> a.image,
                entryPoint |-> <<>>,
                command |-> IF Truthy(a.command) THEN a.command[1] ELSE <<>>]),
        IF Truthy(a.environment)
            THEN [environment |-> a.environment[1]] ELSE EmptyDict,
        IF Truthy(a.secrets) THEN [secrets |-> a.secrets[1]] ELSE EmptyDict,
        IF a.include_sidecars THEN EmptyDict ELSE [dependsOn |-> <<>>])

\* index of the first element of list equal to x, 0 if there is none
Index(list, x) ==
    IF \E i \in 1..Len(list) : list[i] = x
    THEN CHOOSE i \in 1..Len(list) :
             list[i] = x /\ \A j \in 1..(i - 1) : list[j] # x
    ELSE 0

\* list.remove(x), for an x that is in list
Remove(list, x) ==
    SubSeq(list, 1, Index(list, x) - 1)
        \o SubSeq(list, Index(list, x) + 1, Len(list))

\* mutant: the matched container is kept next to the new one
container_definitions_keep(current, container_definition, new, include_sidecars) ==
    IF include_sidecars THEN Append(current, new) ELSE <<new>>

\* the list the new document carries, which in sidecar mode is the caller's
\* own list object after remove and append
container_definitions(current, container_definition, new, include_sidecars) ==
    IF include_sidecars
    THEN Append(Remove(current, container_definition), new)
    ELSE <<new>>

\* the outcome of the call and the caller's document after it
default_ecs_task_definition(doc, a) ==
    LET current_container_name == current_ecs_container_name
        failed(outcome) == [out |-> outcome, doc |-> doc]
    IN IF current_container_name.kind = "raise"
       THEN failed(current_container_name)
       ELSE
       LET found == FirstMatch(doc["containerDefinitions"],
                               current_container_name.value)
       IN IF found.kind = "raise" THEN failed(found)
          ELSE
          LET container_definition == found.value
              expected_keys == RegisterTaskDefinitionRequest
              task_definition ==
                  [key \in expected_keys \cap Keys(doc) |-> doc[key]]
              new == new_container_definition(container_definition, a)
              definitions ==
                  container_definitions(doc["containerDefinitions"],
                                        container_definition, new,
                                        a.include_sidecars)
          IN [out |-> Return(Update(task_definition,
                          [family |-> a.family,
                           containerDefinitions |-> definitions])),
              doc |-> IF a.include_sidecars
                      THEN [doc EXCEPT !["containerDefinitions"] = definitions]
                      ELSE doc]

EnvA == [name |-> "A", value |-> "1"]
EnvB == [name |-> "B", value |-> "2"]
SecretA == [name |-> "KEY", valueFrom |-> "arn:secret/a"]
SecretB == [name |-> "TOKEN", valueFrom |-> "arn:secret/b"]

ContainerPool ==
    { [name |-> "run", image |-> "img1"],
      [name |-> "run", image |-> "img1", entryPoint |-> <<"sh", "-c">>,
       command |-> <<"dagster", "api">>, environment |-> <<EnvA>>,
       secrets |-> <<SecretA>>, dependsOn |-> <<"log">>],
      [name |-> "log", image |-> "fluent"],
      [name |-> "job", image |-> "img1", environment |-> <<EnvA>>] }

RECURSIVE Lists(_, _)
Lists(S, n) ==
    IF n = 0 THEN {<<>>}
    ELSE Lists(S, n - 1)
           \cup {Append(l, x) : l \in {m \in Lists(S, n - 1) : Len(m) = n - 1},
                                x \in S}

Documents ==
    {[family |-> "current", containerDefinitions |-> defs,
      executionRoleArn |-> "arn:role/exec", revision |-> 7,
      status |-> "ACTIVE"] : defs \in Lists(ContainerPool, MaxContainers)}

SynthArguments ==
    [family : {"dagster-run"},
     image : {"img2"},
     container_name : {"run", "job"},
     environment : {NoneList, Some(<<>>), Some(<<EnvB>>)},
     command : {NoneList, Some(<<"dagster", "run">>)},
     secrets : {NoneList, Some(<<>>), Some(<<SecretB>>)},
     include_sidecars : BOOLEAN]

\* the metadata endpoint as the synthesizer can find it
SynthEndpoints ==
    {[reachable |-> TRUE, container |-> c, task |-> EmptyDict] :
         c \in {EmptyDict, [Name |-> "run"], [Name |-> "ghost"]}}

SynthInit ==
    /\ current_task_definition \in Documents
    /\ synthArgs \in SynthArguments
    /\ synthPre = EmptyDict
    /\ synthOut = NotCalled
    /\ synthPrev = NotCalled
    /\ synthCalls = 0

\* one call of default_ecs_task_definition on the caller's document
Synthesize ==
    /\ synthCalls < MaxCalls
    /\ LET r == default_ecs_task_definition(current_task_definition, synthArgs)
       IN /\ synthOut' = r.out
          /\ current_task_definition' = r.doc
    /\ nameOut' = current_ecs_container_name
    /\ synthPre' = current_task_definition
    /\ synthPrev' = synthOut
    /\ synthCalls' = synthCalls + 1
    /\ UNCHANGED <<synthArgs, environ, endpoint, metaOut>>
    /\ UNCHANGED <<pollerVars, projectVars>>

----------------------------------------------------------------------------
(* current_ecs_task_config *)

MaxAttachments == 2

EniIds == {"eni-1", "eni-2"}

\* the fields of the DagsterEcsTaskConfig dataclass, none of which has a default
DagsterEcsTaskConfigFields ==
    {"image", "container_name", "command", "family", "cluster", "subnets",
     "security_groups", "execution_role_arn", "task_role_arn",
     "assign_public_ip", "secrets", "environment", "log_configuration"}

\* the generated __init__ of the dataclass, called with keyword arguments
DagsterEcsTaskConfig(kwargs) ==
    IF DagsterEcsTaskConfigFields \subseteq Keys(kwargs)
    THEN Return(kwargs)
    ELSE Raise("TypeError")

RECURSIVE Concat(_)
\* the concatenation of a list of lists
Concat(lists) ==
    IF lists = <<>> THEN <<>> ELSE Head(lists) \o Concat(Tail(lists))

\* the values, in order, of the details of the task's network interface
\* attachments whose name is `name`
Details(t, name) ==
    LET attachments ==
            SelectSeq(t.attachments,
                      LAMBDA attachment :
                          attachment.type = "ElasticNetworkInterface")
        values(attachment) ==
            LET details == SelectSeq(attachment.details,
                                     LAMBDA detail : detail.name = name)
            IN [i \in 1..Len(details) |-> details[i].value]
    IN Concat([i \in 1..Len(attachments) |-> values(attachments[i])])

\* (eni.association_attribute or {}).get("PublicIp")
PublicIp(eni) ==
    /\ eni.association_attribute # NoneList
    /\ "PublicIp" \in Keys(eni.association_attribute[1])
    /\ eni.association_attribute[1]["PublicIp"] # ""

current_ecs_task_config(ec2, cluster, t, task_definition, environment, secrets, container_name, image) ==
    LET subnets == Details(t, "subnetId")
        ids == Details(t, "networkInterfaceId")
        enis == [i \in 1..Len(ids) |-> ec2[ids[i]]]
        public_ip == \E i \in 1..Len(enis) : PublicIp(enis[i])
        security_groups ==
            Concat([i \in 1..Len(enis) |->
                       [j \in 1..Len(enis[i].groups) |->
                           enis[i].groups[j]["GroupId"]]])
        execution_role_arn == Get(task_definition, "executionRoleArn")
        task_role_arn == Get(task_definition, "taskRoleArn")
    IN DagsterEcsTaskConfig(
           [container_name |-> container_name,
            image |-> image,
            family |-> task_definition["family"],
            cluster |-> cluster,
            subnets |-> subnets,
            security_groups |-> security_groups,
            execution_role_arn |-> execution_role_arn,
            task_role_arn |-> task_role_arn,
            assign_public_ip |-> IF public_ip THEN "ENABLED" ELSE "DISABLED",
            environment |-> environment,
            secrets |-> secrets])

Group(g) == [GroupId |-> g, GroupName |-> "default"]
Detail(n, v) == [name |-> n, value |-> v]

AttachmentPool ==
    { [type |-> "ElasticNetworkInterface",
       details |-> <<Detail("subnetId", "subnet-1"),
                     Detail("networkInterfaceId", "eni-1")>>],
      [type |-> "ElasticNetworkInterface",
       details |-> <<Detail("networkInterfaceId", "eni-2"),
                     Detail("macAddress", "0a:1b"),
                     Detail("subnetId", "subnet-2")>>],
      [type |-> "ElasticNetworkInterface", details |-> <<>>],
      [type |-> "Other",
       details |-> <<Detail("networkInterfaceId", "eni-1")>>] }

Tasks == {[attachments |-> l] : l \in Lists(AttachmentPool, MaxAttachments)}

NetworkInterfaces ==
    [association_attribute :
         {NoneList, Some(EmptyDict), Some([PublicIp |-> "54.1.2.3"])},
     groups : {<<>>, <<Group("g1")>>, <<Group("g2")>>,
               <<Group("g1"), Group("g2")>>}]

ProjectArguments ==
    [cluster : {"cluster-a"},
     task_definition :
         {[family |-> "current"],
          [family |-> "current", executionRoleArn |-> "arn:role/exec",
           taskRoleArn |-> "arn:role/task"]},
     environment : {NoneList, Some(<<EnvB>>)},
     secrets : {NoneList},
     container_name : {"run"},
     image : {"img2"}]

ProjectInit ==
    /\ task \in Tasks
    /\ interfaces \in [EniIds -> NetworkInterfaces]
    /\ projectArgs \in ProjectArguments
    /\ projectOut = NotCalled

Project ==
    /\ projectOut' =
           current_ecs_task_config(interfaces, projectArgs.cluster, task,
                                   projectArgs.task_definition,
                                   projectArgs.environment,
                                   projectArgs.secrets,
                                   projectArgs.container_name,
                                   projectArgs.image)
    /\ UNCHANGED <<task, interfaces, projectArgs>>
    /\ UNCHANGED <<pollerVars, metaVars, synthVars>>

----------------------------------------------------------------------------
(* specifications: one per component, the other components at rest *)

PollerRest ==
    /\ pc = "rest"
    /\ request = EmptyDict
    /\ log = <<>>
    /\ calls = 0
    /\ sleeps = 0
    /\ result = NotCalled

MetaRest ==
    /\ environ = None
    /\ endpoint = [reachable |-> FALSE, container |-> EmptyDict,
                   task |-> EmptyDict]
    /\ metaOut = NotCalled
    /\ nameOut = NotCalled

SynthRest ==
    /\ current_task_definition = EmptyDict
    /\ synthArgs = EmptyDict
    /\ synthPre = EmptyDict
    /\ synthOut = NotCalled
    /\ synthPrev = NotCalled
    /\ synthCalls = 0

ProjectRest ==
    /\ task = EmptyDict
    /\ interfaces = EmptyDict
    /\ projectArgs = EmptyDict
    /\ projectOut = NotCalled

PollerNext == (\E response \in Responses : Attempt(response)) \/ Sleep
InitPoller == PollerInit /\ MetaRest /\ SynthRest /\ ProjectRest
SpecPoller == InitPoller /\ [][PollerNext]_vars

MetaNext == CallTaskMetadata \/ CallContainerName
InitMeta == MetaInit /\ PollerRest /\ SynthRest /\ ProjectRest
SpecMeta == InitMeta /\ [][MetaNext]_vars

SynthNext == Synthesize
InitSynth ==
    /\ SynthInit /\ PollerRest /\ ProjectRest
    /\ environ = MetadataUri /\ endpoint \in SynthEndpoints
    /\ metaOut = NotCalled /\ nameOut = NotCalled
SpecSynth == InitSynth /\ [][SynthNext]_vars

ProjectNext == Project
InitProject == ProjectInit /\ PollerRest /\ MetaRest /\ SynthRest
SpecProject == InitProject /\ [][ProjectNext]_vars

----------------------------------------------------------------------------
(* properties of current_ecs_task, checked under SpecPoller *)

IsNotFound(response) == response.exc = NoExc /\ response.tasks = <<>>
IsSuccess(response) == response.exc = NoExc /\ response.tasks # <<>>
IsOther(response) == response.exc # NoExc

C2_SuccessAfterK ==
    \A n \in 1..Len(log) :
        (IsSuccess(log[n]) /\ \A i \in 1..(n - 1) : IsNotFound(log[i]))
            => /\ n - 1 < 9
               /\ Len(log) = n
               /\ calls = n
               /\ pc = "done"
               /\ result = Return(Head(log[n].tasks))

C2_Witness ==
    /\ pc = "done"
    /\ calls = 9
    /\ \A i \in 1..8 : IsNotFound(log[i])
    /\ log[9].tasks = <<"task-x", "task-y">>
    /\ result = Return("task-x")

\* C3: a call that fails with anything but EcsNoTasksFound is the last call,
\* whether it is the first call or follows EcsNoTasksFound attempts, and
\* current_ecs_task raises that very error.
C3_OtherErrorPropagates ==
    \A n \in 1..Len(log) :
        IsOther(log[n])
            => /\ Len(log) = n
               /\ calls = n
               /\ pc = "done"
               /\ result = Raise(log[n].exc)
               /\ result.exc \notin {EcsNoTasksFound,
                                     EcsEventualConsistencyTimeout}

C3_Witness ==
    /\ pc = "done"
    /\ calls = 4
    /\ \A i \in 1..3 : IsNotFound(log[i])
    /\ Raised(result, "ClientError")

----------------------------------------------------------------------------
(* properties of the metadata resolver, checked under SpecMeta *)

\* C10: current_ecs_task_metadata never returns an identity whose cluster or
\* task reference is missing; it fails when the environment variable is
\* unset, when the endpoint is unreachable and when Cluster or TaskARN is
\* absent from the response, and current_ecs_container_name fails likewise
\* when Name is absent.
C10_IdentityComplete ==
    /\ Returned(metaOut)
           => /\ metaOut.value.cluster # None
              /\ metaOut.value.task_arn # None
    /\ (metaOut # NotCalled /\ (environ = None \/ ~endpoint.reachable))
           => metaOut.kind = "raise"
    /\ (metaOut # NotCalled
            /\ ~({"Cluster", "TaskARN"} \subseteq Keys(endpoint.task)))
           => metaOut.kind = "raise"
    /\ (nameOut # NotCalled
            /\ (environ = None \/ ~endpoint.reachable
                    \/ "Name" \notin Keys(endpoint.container)))
           => nameOut.kind = "raise"

----------------------------------------------------------------------------
(* properties of default_ecs_task_definition, checked under SpecSynth *)

\* the container definitions of the caller's document before the last call
PreDefinitions == synthPre["containerDefinitions"]
\* the places of the containers named as the current container
Matches ==
    {i \in 1..Len(PreDefinitions) :
         PreDefinitions[i]["name"] = nameOut.value}
FirstMatched == CHOOSE i \in Matches : \A j \in Matches : i <= j
OutDefinitions == synthOut.value["containerDefinitions"]
Synthesized == OutDefinitions[Len(OutDefinitions)]
\* the last call found the current container's name
Resolved == synthCalls > 0 /\ Returned(nameOut)

\* C4: a call leaves the caller's document as it was, and a call repeated on
\* the same document with the same arguments succeeds as the one before it
\* did and returns an equal document.
C4_Pure ==
    /\ (synthCalls > 0 /\ Returned(synthOut))
           => current_task_definition = synthPre
    /\ (synthCalls > 1 /\ Returned(synthPrev)) => synthOut = synthPrev

\* C5 as stated: the synthesized container has no environment key when the
\* environment argument is empty or None, no secrets key when the secrets
\* argument is empty or None, and carries the argument's value otherwise.
C5_Original ==
    (synthCalls > 0 /\ Returned(synthOut))
        => /\ IF Truthy(synthArgs.environment)
              THEN /\ "environment" \in Keys(Synthesized)
                   /\ Synthesized["environment"] = synthArgs.environment[1]
              ELSE "environment" \notin Keys(Synthesized)
           /\ IF Truthy(synthArgs.secrets)
              THEN /\ "secrets" \in Keys(Synthesized)
                   /\ Synthesized["secrets"] = synthArgs.secrets[1]
              ELSE "secrets" \notin Keys(Synthesized)

\* the key of the synthesized container is the matched container's: absent
\* if it is absent there, and with the same value if it is present
Inherited(key) ==
    LET matched == PreDefinitions[FirstMatched]
    IN IF key \in Keys(matched)
       THEN key \in Keys(Synthesized) /\ Synthesized[key] = matched[key]
       ELSE key \notin Keys(Synthesized)

\* C5 as amended: the synthesized container carries the environment
\* (secrets) argument's value when that argument is non-empty, and otherwise
\* inherits the matched container's environment (secrets) entry, having the
\* key only if the matched container has it.
C5_EnvironmentSecrets ==
    (synthCalls > 0 /\ Returned(synthOut))
        => /\ IF Truthy(synthArgs.environment)
              THEN /\ "environment" \in Keys(Synthesized)
                   /\ Synthesized["environment"] = synthArgs.environment[1]
              ELSE Inherited("environment")
           /\ IF Truthy(synthArgs.secrets)
              THEN /\ "secrets" \in Keys(Synthesized)
                   /\ Synthesized["secrets"] = synthArgs.secrets[1]
              ELSE Inherited("secrets")

C5_Witness ==
    /\ synthCalls > 0
    /\ Returned(synthOut)
    /\ synthArgs.environment = Some(<<>>)
    /\ Truthy(synthArgs.secrets)
    /\ "environment" \in Keys(PreDefinitions[FirstMatched])
    /\ "secrets" \in Keys(PreDefinitions[FirstMatched])
    /\ Synthesized["environment"] = <<EnvA>>
    /\ Synthesized["secrets"] = <<SecretB>>

\* C6: without sidecars, a document with exactly one container named as the
\* current container yields a document with exactly one container, named
\* container_name, whose entryPoint and dependsOn are empty.
C6_ReplaceOnly ==
    (Resolved /\ ~synthArgs.include_sidecars /\ Cardinality(Matches) = 1)
        => /\ Returned(synthOut)
           /\ Len(OutDefinitions) = 1
           /\ OutDefinitions[1]["name"] = synthArgs.container_name
           /\ {"entryPoint", "dependsOn"} \subseteq Keys(OutDefinitions[1])
           /\ OutDefinitions[1]["entryPoint"] = <<>>
           /\ OutDefinitions[1]["dependsOn"] = <<>>

C6_Witness ==
    /\ Resolved
    /\ ~synthArgs.include_sidecars
    /\ Cardinality(Matches) = 1
    /\ Len(PreDefinitions) = 2
    /\ "dependsOn" \in Keys(PreDefinitions[FirstMatched])
    /\ PreDefinitions[FirstMatched]["dependsOn"] # <<>>
    /\ Len(OutDefinitions) = 1

\* C7: with sidecars, when the current container is found, the new
\* document's containers are those of the caller's document before the call
\* without the matched one, in their order and unchanged, followed by the
\* synthesized container, so there are as many as before.
C7_Sidecars ==
    (Resolved /\ synthArgs.include_sidecars /\ Matches # {})
        => /\ Returned(synthOut)
           /\ Len(OutDefinitions) = Len(PreDefinitions)
           /\ SubSeq(OutDefinitions, 1, Len(OutDefinitions) - 1)
                  = SubSeq(PreDefinitions, 1, FirstMatched - 1)
                      \o SubSeq(PreDefinitions, FirstMatched + 1,
                                Len(PreDefinitions))
           /\ Synthesized["name"] = synthArgs.container_name
           /\ Synthesized["image"] = synthArgs.image
           /\ Synthesized["entryPoint"] = <<>>

C7_Witness ==
    /\ Resolved
    /\ synthArgs.include_sidecars
    /\ Len(PreDefinitions) = 2
    /\ Matches # {}
    /\ FirstMatched = 1
    /\ PreDefinitions[2]["name"] = "log"
    /\ Returned(synthOut)
    /\ OutDefinitions[1] = PreDefinitions[2]

\* C8: when no container of the document is named as the current container,
\* the call fails at the lookup (StopIteration) and returns no document.
C8_ContainerNotFound ==
    (Resolved /\ Matches = {})
        => /\ Raised(synthOut, "StopIteration")
           /\ ~Returned(synthOut)

C8_Witness ==
    /\ Resolved
    /\ Matches = {}
    /\ Len(PreDefinitions) = 2
    /\ Raised(synthOut, "StopIteration")

----------------------------------------------------------------------------
(* properties of current_ecs_task_config, checked under SpecProject *)

\* the interfaces the task's network interface attachments refer to
ReferencedIds ==
    UNION {{a.details[i].value :
                i \in {j \in 1..Len(a.details) :
                           a.details[j].name = "networkInterfaceId"}} :
           a \in {task.attachments[k] :
                      k \in {n \in 1..Len(task.attachments) :
                                 task.attachments[n].type
                                     = "ElasticNetworkInterface"}}}
GroupIds(eni) == {eni.groups[j]["GroupId"] : j \in 1..Len(eni.groups)}
Elements(list) == {list[i] : i \in 1..Len(list)}

\* C9: the call returns a config whose assign_public_ip is "ENABLED" exactly
\* when some interface of the task's network interface attachments has a
\* public ip, "DISABLED" otherwise, and whose security_groups holds every
\* group of every such interface.
C9_ProjectReturnsConfig ==
    projectOut # NotCalled
        => /\ Returned(projectOut)
           /\ projectOut.value.assign_public_ip
                  = IF \E id \in ReferencedIds : PublicIp(interfaces[id])
                    THEN "ENABLED" ELSE "DISABLED"
           /\ \A id \in ReferencedIds :
                  GroupIds(interfaces[id])
                      \subseteq Elements(projectOut.value.security_groups)

====
